---- MODULE Spec2Model ----
(***************************************************************************)
(* Model of scripts/us_event_fetcher.py: the EconomicEvent constructor,    *)
(* the Forex Factory adapter's row loop, EventAggregator.fetch_all,        *)
(* EventAggregator.filter_high_medium and main.                            *)
(*                                                                         *)
(* Times are whole seconds: the microseconds, which                         *)
(* replace(second=0, microsecond=0) drops together with the seconds, are   *)
(* left out.  Python's None is the string "None".                          *)
(***************************************************************************)
EXTENDS Integers, Sequences, FiniteSets, TLC

VARIABLES pc,
          \* EventAggregator.fetch_all: position in self.fetchers, what each
          \* fetch did, and the locals all_events, seen, unique_events
          idx, results, all_events, seen, unique_events,
          \* main: all_events, filtered_events, pine_script, json_output, the
          \* two files, the value returned and the exit status
          main_all_events, filtered_events, pine_script, json_output,
          pine_file, json_file, ret, exit_status,
          \* EconomicEvent.__init__: the arguments and the object built
          ev_args, event,
          \* ForexFactoryFetcher.fetch: the rows of the page, the loop
          \* position and the list events
          rows, row_idx, ff_events,
          \* HardcodedFetcher.fetch: the time of the call, the argument
          \* days_ahead, the loop position and the list events
          now_utc, days_ahead, hc_idx, hc_events

aggVars == <<idx, results, all_events, seen, unique_events>>
mainVars == <<main_all_events, filtered_events>>
ioVars == <<pine_script, json_output, pine_file, json_file, ret, exit_status>>
evVars == <<ev_args, event>>
ffVars == <<rows, row_idx, ff_events>>
hcVars == <<now_utc, days_ahead, hc_idx, hc_events>>

vars == <<pc, aggVars, mainVars, ioVars, evVars, ffVars, hcVars>>

None == "None"

\* Total number of records the three adapters return in one run.
MaxEvents == 2

\* seconds per minute: replace(second=0, microsecond=0) drops t mod 60
SecPerMin == 60

\* self.fetchers, in list order
NumFetchers == 3

FetcherName(i) ==
    CASE i = 1 -> "ForexFactoryFetcher"
      [] i = 2 -> "FedCalendarFetcher"
      [] i = 3 -> "HardcodedFetcher"

\* the source text each adapter puts on the records it builds
SourceOf(i) ==
    CASE i = 1 -> "Forex Factory"
      [] i = 2 -> "Federal Reserve"
      [] i = 3 -> "Hardcoded Schedule"

(***************************************************************************)
(* Input domains: what the adapters may hand to the aggregator.            *)
(***************************************************************************)
Names == {"CPI Release", "cpi release"}

\* 12:30:00, 12:30:45, 12:30:59 and 12:31:00 of one day, in seconds
Times == {45000, 45045, 45059, 45060}

Impacts == {"High", "Medium", "Low"}

\* only the Forex Factory adapter passes forecast=; the others leave None
Forecasts(i) == IF i = 1 THEN {None, "150K"} ELSE {None}

\* an EconomicEvent as it leaves the constructor
EventsOf(i) ==
    [name : Names, event_time_utc : Times, impact : Impacts,
     forecast : Forecasts(i), previous : {None}, actual : {None},
     source : {SourceOf(i)}]

SeqsUpTo(S, n) == UNION {[1..k -> S] : k \in 0..n}

(***************************************************************************)
(* EventAggregator.fetch_all, the deduplication and the sort.              *)
(***************************************************************************)
\* the loop over self.fetchers as a whole: the lists of the adapters that
\* returned, extended onto all_events in the order of the calls; an adapter
\* that raised adds nothing
RECURSIVE Flatten(_)
Flatten(rs) ==
    IF rs = <<>> THEN <<>>
    ELSE (IF Head(rs).raised THEN <<>> ELSE Head(rs).events) \o Flatten(Tail(rs))

TruncMinute(t) == t - (t % SecPerMin)

\* a key that rounds to the nearest minute instead of truncating
DedupKeyRounded(e) ==
    <<e.name, TruncMinute(e.event_time_utc + (SecPerMin \div 2))>>

\* key = (event.name, event.event_time_utc.replace(second=0, microsecond=0))
DedupKey(e) == <<e.name, TruncMinute(e.event_time_utc)>>

\* the loop "for event in all_events": events from position i on, with the
\* keys seen so far and the events kept so far
RECURSIVE DedupLoop(_, _, _, _)
DedupLoop(evs, i, sn, uniq) ==
    IF i > Len(evs) THEN [seen |-> sn, unique |-> uniq]
    ELSE IF DedupKey(evs[i]) \notin sn
         THEN DedupLoop(evs, i + 1, sn \cup {DedupKey(evs[i])},
                        Append(uniq, evs[i]))
         ELSE DedupLoop(evs, i + 1, sn, uniq)

\* a deduplication that never adds a key to seen: every record is kept
DedupKeepAll(evs) == [seen |-> {}, unique |-> evs]

\* a deduplication in which a later duplicate replaces the record kept
RECURSIVE DedupLastLoop(_, _, _, _)
DedupLastLoop(evs, i, sn, uniq) ==
    IF i > Len(evs) THEN [seen |-> sn, unique |-> uniq]
    ELSE IF DedupKey(evs[i]) \notin sn
         THEN DedupLastLoop(evs, i + 1, sn \cup {DedupKey(evs[i])},
                            Append(uniq, evs[i]))
         ELSE DedupLastLoop(evs, i + 1, sn,
                  [k \in 1..Len(uniq) |->
                      IF DedupKey(uniq[k]) = DedupKey(evs[i])
                      THEN evs[i] ELSE uniq[k]])

DedupLastWins(evs) == DedupLastLoop(evs, 1, {}, <<>>)

\* a deduplication that runs on the High and Medium records only: the
\* filter comes first
DedupFilterFirst(evs) ==
    DedupLoop(SelectSeq(evs, LAMBDA e : e.impact \in {"High", "Medium"}),
              1, {}, <<>>)

Dedup(evs) == DedupLoop(evs, 1, {}, <<>>)

\* an insertion that puts e in front of the elements of equal key
RECURSIVE InsertBeforeEqual(_, _)
InsertBeforeEqual(e, s) ==
    IF s = <<>> THEN <<e>>
    ELSE IF s[Len(s)].event_time_utc < e.event_time_utc
         THEN Append(s, e)
         ELSE Append(InsertBeforeEqual(e, SubSeq(s, 1, Len(s) - 1)), s[Len(s)])

\* insert e behind every element whose key is not greater: a stable insertion
RECURSIVE InsertByTime(_, _)
InsertByTime(e, s) ==
    IF s = <<>> THEN <<e>>
    ELSE IF s[Len(s)].event_time_utc <= e.event_time_utc
         THEN Append(s, e)
         ELSE Append(InsertByTime(e, SubSeq(s, 1, Len(s) - 1)), s[Len(s)])

\* list.sort(key=lambda e: e.event_time_utc): stable, ascending
RECURSIVE SortLoop(_, _, _)
SortLoop(evs, i, acc) ==
    IF i > Len(evs) THEN acc
    ELSE SortLoop(evs, i + 1, InsertByTime(evs[i], acc))

\* a stable sort whose key is the minute, not the full time
RECURSIVE InsertByMinute(_, _)
InsertByMinute(e, s) ==
    IF s = <<>> THEN <<e>>
    ELSE IF TruncMinute(s[Len(s)].event_time_utc)
               <= TruncMinute(e.event_time_utc)
         THEN Append(s, e)
         ELSE Append(InsertByMinute(e, SubSeq(s, 1, Len(s) - 1)), s[Len(s)])

RECURSIVE SortByMinuteLoop(_, _, _)
SortByMinuteLoop(evs, i, acc) ==
    IF i > Len(evs) THEN acc
    ELSE SortByMinuteLoop(evs, i + 1, InsertByMinute(evs[i], acc))

SortByMinute(evs) == SortByMinuteLoop(evs, 1, <<>>)

SortByTime(evs) == SortLoop(evs, 1, <<>>)

\* a filter that keeps the High records only
filter_high_only(events) ==
    SelectSeq(events, LAMBDA e : e.impact = "High")

\* [e for e in events if e.impact in ['High', 'Medium']]
filter_high_medium(events) ==
    SelectSeq(events, LAMBDA e : e.impact \in {"High", "Medium"})

(***************************************************************************)
(* The run of fetch_all and filter_high_medium as main calls them.         *)
(***************************************************************************)
\* nothing has run yet
IdleAgg ==
    /\ idx = 1
    /\ results = <<>>
    /\ all_events = <<>>
    /\ seen = {}
    /\ unique_events = <<>>

IdleIo ==
    /\ pine_script = None
    /\ json_output = None
    /\ pine_file = [opened |-> FALSE, written |-> <<>>]
    /\ json_file = [opened |-> FALSE, written |-> <<>>]
    /\ ret = None
    /\ exit_status = None

IdleEv ==
    /\ ev_args = None
    /\ event = None

IdleFf ==
    /\ rows = <<>>
    /\ row_idx = 1
    /\ ff_events = <<>>

\* days_ahead: int = 365
DefaultDaysAhead == 365

IdleHc ==
    /\ now_utc = 0
    /\ days_ahead = DefaultDaysAhead
    /\ hc_idx = 1
    /\ hc_events = <<>>

Idle ==
    /\ IdleAgg
    /\ main_all_events = <<>>
    /\ filtered_events = <<>>
    /\ IdleIo
    /\ IdleEv
    /\ IdleFf
    /\ IdleHc

Init ==
    /\ pc = "fetch"
    /\ Idle

\* events = fetcher.fetch(days_ahead); all_events.extend(events)
FetchReturns(i) ==
    /\ pc = "fetch"
    /\ idx = i
    /\ \E events \in SeqsUpTo(EventsOf(i), MaxEvents - Len(all_events)) :
          /\ all_events' = all_events \o events
          /\ results' = Append(results, [fetcher |-> FetcherName(i),
                                         raised |-> FALSE, events |-> events])
    /\ idx' = idx + 1
    /\ UNCHANGED <<pc, seen, unique_events, mainVars, ioVars, evVars, ffVars,
                   hcVars>>

\* a fetch_all without the try/except: the exception leaves fetch_all
FetchRaisesUncaught(i) ==
    /\ pc = "fetch"
    /\ idx = i
    /\ pc' = "fetch_all_raised"
    /\ UNCHANGED <<aggVars, mainVars, ioVars, evVars, ffVars,
                   hcVars>>

\* fetcher.fetch raises: except Exception logs the error, the loop goes on
FetchRaises(i) ==
    /\ pc = "fetch"
    /\ idx = i
    /\ results' = Append(results, [fetcher |-> FetcherName(i),
                                   raised |-> TRUE, events |-> <<>>])
    /\ idx' = idx + 1
    /\ UNCHANGED <<pc, all_events, seen, unique_events, mainVars, ioVars,
                   evVars, ffVars,
                   hcVars>>

\* the loop over self.fetchers has ended: the deduplication loop
Deduplicate ==
    /\ pc = "fetch"
    /\ idx > NumFetchers
    /\ seen' = Dedup(all_events).seen
    /\ unique_events' = Dedup(all_events).unique
    /\ pc' = "sort"
    /\ UNCHANGED <<idx, results, all_events, mainVars, ioVars, evVars, ffVars,
                   hcVars>>

\* unique_events.sort(...); return unique_events (main's all_events)
SortAndReturn ==
    /\ pc = "sort"
    /\ unique_events' = SortByTime(unique_events)
    /\ main_all_events' = SortByTime(unique_events)
    /\ pc' = "filter"
    /\ UNCHANGED <<idx, results, all_events, seen, filtered_events, ioVars,
                   evVars, ffVars,
                   hcVars>>

\* filtered_events = aggregator.filter_high_medium(all_events)
Filter ==
    /\ pc = "filter"
    /\ filtered_events' = filter_high_medium(main_all_events)
    /\ pc' = "filtered"
    /\ UNCHANGED <<aggVars, main_all_events, ioVars, evVars, ffVars,
                   hcVars>>

Next ==
    \/ \E i \in 1..NumFetchers : FetchReturns(i)
    \/ \E i \in 1..NumFetchers : FetchRaises(i)
    \/ Deduplicate
    \/ SortAndReturn
    \/ Filter

Spec == Init /\ [][Next]_vars

(***************************************************************************)
(* filter_high_medium on any list of records.                              *)
(***************************************************************************)
\* impact is an unchecked string of the constructor: also one the filter
\* does not know
FilterInputs ==
    SeqsUpTo([name : Names, event_time_utc : Times,
              impact : Impacts \cup {"high"}, forecast : {None},
              previous : {None}, actual : {None}, source : {SourceOf(1)}],
             MaxEvents)

InitFilter ==
    /\ pc = "filter"
    /\ IdleAgg
    /\ main_all_events \in FilterInputs
    /\ filtered_events = <<>>
    /\ IdleIo
    /\ IdleEv
    /\ IdleFf
    /\ IdleHc

SpecFilter == InitFilter /\ [][Filter]_vars

(***************************************************************************)
(* The output generators.  A text is modelled by what it holds.            *)
(***************************************************************************)
BkkOffsetHours == 7

MsPerSecond == 1000

\* event.forecast or 'N/A': None and the empty string give N/A
OrNA(v) == IF v = None \/ v = "" THEN "N/A" ELSE v

\* timestamp("UTC", year, month, day, hour, minute): no seconds
PineTimestamp(e) == TruncMinute(e.event_time_utc)

\* PineScriptGenerator.generate_pine_arrays
generate_pine_arrays(events) ==
    [event_count |-> Len(events),
     entries |-> [i \in 1..Len(events) |->
        [index |-> i - 1,
         name |-> events[i].name,
         time_utc |-> PineTimestamp(events[i]),
         impact |-> events[i].impact,
         source |-> events[i].source,
         forecast |-> OrNA(events[i].forecast),
         previous |-> OrNA(events[i].previous)]]]

\* EconomicEvent.to_dict; time_bkk is the wall clock of Asia/Bangkok
to_dict(e) ==
    [name |-> e.name,
     time_utc |-> e.event_time_utc,
     time_bkk |-> e.event_time_utc + BkkOffsetHours * 60 * SecPerMin,
     impact |-> e.impact,
     forecast |-> e.forecast,
     previous |-> e.previous,
     actual |-> e.actual,
     source |-> e.source,
     timestamp_utc_ms |-> e.event_time_utc * MsPerSecond]

\* JSONGenerator.generate_json
generate_json(events) ==
    [total_events |-> Len(events),
     events |-> [i \in 1..Len(events) |-> to_dict(events[i])]]

(***************************************************************************)
(* main.  fetch_all and filter_high_medium are the calls modelled above.   *)
(***************************************************************************)
\* what one fetch can do when n more records fit the bound
Outcomes(i, n) ==
    {[fetcher |-> FetcherName(i), raised |-> TRUE, events |-> <<>>]}
    \cup {[fetcher |-> FetcherName(i), raised |-> FALSE, events |-> evs] :
             evs \in SeqsUpTo(EventsOf(i), n)}

\* fetch_all from the call to the return
fetch_all(rs) == SortByTime(Dedup(Flatten(rs)).unique)

InitMain ==
    /\ pc = "main"
    /\ Idle

\* all_events = aggregator.fetch_all(days_ahead=365)
MainFetchAll ==
    /\ pc = "main"
    /\ \E r1 \in Outcomes(1, MaxEvents) :
       \E r2 \in Outcomes(2, MaxEvents - Len(r1.events)) :
       \E r3 \in Outcomes(3, MaxEvents - Len(r1.events) - Len(r2.events)) :
          main_all_events' = fetch_all(<<r1, r2, r3>>)
    /\ pc' = "main_filter"
    /\ UNCHANGED <<aggVars, filtered_events, ioVars, evVars, ffVars,
                   hcVars>>

\* filtered_events = aggregator.filter_high_medium(all_events)
MainFilter ==
    /\ pc = "main_filter"
    /\ filtered_events' = filter_high_medium(main_all_events)
    /\ pc' = "check"
    /\ UNCHANGED <<aggVars, main_all_events, ioVars, evVars, ffVars,
                   hcVars>>

\* a main without the test of the empty list
CheckEmptySkipped ==
    /\ pc = "check"
    /\ pc' = "gen_pine"
    /\ UNCHANGED <<aggVars, mainVars, ioVars, evVars, ffVars,
                   hcVars>>

\* if not filtered_events: return False
CheckEmpty ==
    /\ pc = "check"
    /\ IF filtered_events = <<>>
       THEN /\ ret' = FALSE
            /\ pc' = "exit"
       ELSE /\ ret' = ret
            /\ pc' = "gen_pine"
    /\ UNCHANGED <<aggVars, mainVars, pine_script, json_output, pine_file,
                   json_file, exit_status, evVars, ffVars,
                   hcVars>>

GeneratePine ==
    /\ pc = "gen_pine"
    /\ pine_script' = generate_pine_arrays(filtered_events)
    /\ pc' = "gen_json"
    /\ UNCHANGED <<aggVars, mainVars, json_output, pine_file, json_file, ret,
                   exit_status, evVars, ffVars,
                   hcVars>>

GenerateJson ==
    /\ pc = "gen_json"
    /\ json_output' = generate_json(filtered_events)
    /\ pc' = "open_pine"
    /\ UNCHANGED <<aggVars, mainVars, pine_script, pine_file, json_file, ret,
                   exit_status, evVars, ffVars,
                   hcVars>>

\* open('events.pine', 'w'): the file exists and is empty; a file is
\* modelled by whether the run opened it and the texts the run wrote to it
OpenPine ==
    /\ pc = "open_pine"
    /\ pine_file' = [opened |-> TRUE, written |-> <<>>]
    /\ pc' = "write_pine"
    /\ UNCHANGED <<aggVars, mainVars, pine_script, json_output, json_file, ret,
                   exit_status, evVars, ffVars,
                   hcVars>>

\* f.write(pine_script), and the with block closes the file
WritePine ==
    /\ pc = "write_pine"
    /\ pine_file' = [pine_file EXCEPT !.written = Append(@, pine_script)]
    /\ pc' = "open_json"
    /\ UNCHANGED <<aggVars, mainVars, pine_script, json_output, json_file, ret,
                   exit_status, evVars, ffVars,
                   hcVars>>

\* open('events.json', 'w')
OpenJson ==
    /\ pc = "open_json"
    /\ json_file' = [opened |-> TRUE, written |-> <<>>]
    /\ pc' = "write_json"
    /\ UNCHANGED <<aggVars, mainVars, pine_script, json_output, pine_file, ret,
                   exit_status, evVars, ffVars,
                   hcVars>>

\* f.write(json_output)
WriteJson ==
    /\ pc = "write_json"
    /\ json_file' = [json_file EXCEPT !.written = Append(@, json_output)]
    /\ pc' = "summary"
    /\ UNCHANGED <<aggVars, mainVars, pine_script, json_output, pine_file, ret,
                   exit_status, evVars, ffVars,
                   hcVars>>

\* the summary is logged; return True
ReturnTrue ==
    /\ pc = "summary"
    /\ ret' = TRUE
    /\ pc' = "exit"
    /\ UNCHANGED <<aggVars, mainVars, pine_script, json_output, pine_file,
                   json_file, exit_status, evVars, ffVars,
                   hcVars>>

\* the statements of the try block that can raise: generating a text,
\* opening a file, writing to it
CanRaise == {"gen_pine", "gen_json", "open_pine", "write_pine", "open_json",
             "write_json"}

\* except Exception: the error is logged; return False
Except ==
    /\ pc \in CanRaise
    /\ ret' = FALSE
    /\ pc' = "exit"
    /\ UNCHANGED <<aggVars, mainVars, pine_script, json_output, pine_file,
                   json_file, exit_status, evVars, ffVars,
                   hcVars>>

\* success = main(); exit(0 if success else 1)
Exit ==
    /\ pc = "exit"
    /\ exit_status' = (IF ret = TRUE THEN 0 ELSE 1)
    /\ pc' = "done"
    /\ UNCHANGED <<aggVars, mainVars, pine_script, json_output, pine_file,
                   json_file, ret, evVars, ffVars,
                   hcVars>>

NextMain ==
    \/ MainFetchAll
    \/ MainFilter
    \/ CheckEmpty
    \/ GeneratePine
    \/ GenerateJson
    \/ OpenPine
    \/ WritePine
    \/ OpenJson
    \/ WriteJson
    \/ ReturnTrue
    \/ Except
    \/ Exit

SpecMain == InitMain /\ [][NextMain]_vars

(***************************************************************************)
(* EconomicEvent.__init__.  A datetime is its wall-clock reading in        *)
(* seconds and its tzinfo: "None" for a naive value, else the name of a    *)
(* fixed offset.  The aggregation above carries, for event_time_utc, the   *)
(* reading of the stored value, whose tzinfo is always UTC.                *)
(***************************************************************************)
\* the last hour of the wall-clock readings tried
MaxWallHour == 23

SecPerHour == 60 * SecPerMin

\* UTC, the two offsets of US/Eastern, its local mean time (what
\* replace(tzinfo=US_EASTERN) attaches) and Asia/Bangkok
utcoffset(tz) ==
    CASE tz = "UTC" -> 0
      [] tz = "EST" -> -(5 * SecPerHour)
      [] tz = "EDT" -> -(4 * SecPerHour)
      [] tz = "LMT" -> -(4 * SecPerHour + 56 * SecPerMin)
      [] tz = "BKK" -> BkkOffsetHours * SecPerHour

TzInfos == {None, "UTC", "EST", "EDT", "LMT", "BKK"}

WallClocks == {h * SecPerHour + 30 * SecPerMin : h \in 0..MaxWallHour}

\* dt.replace(tzinfo=tz): the reading is kept
replace_tzinfo(dt, tz) == [dt EXCEPT !.tzinfo = tz]

\* dt.astimezone(tz) of an aware dt: the same instant read in tz
astimezone(dt, tz) ==
    [wall |-> dt.wall - utcoffset(dt.tzinfo) + utcoffset(tz), tzinfo |-> tz]

\* the seconds of the instant an aware dt names
UtcSeconds(dt) == dt.wall - utcoffset(dt.tzinfo)

\* a normalisation that replaces the tzinfo of every argument
ReplaceAlways(dt) == replace_tzinfo(dt, "UTC")

\* event_time_utc.replace(tzinfo=UTC) if event_time_utc.tzinfo is None
\* else event_time_utc.astimezone(UTC)
NormalizeTime(dt) ==
    IF dt.tzinfo = None THEN replace_tzinfo(dt, "UTC")
    ELSE astimezone(dt, "UTC")

\* a constructor that checks the impact and falls back to Low
EconomicEventChecked(a) ==
    [name |-> a.name,
     event_time_utc |-> NormalizeTime(a.event_time_utc),
     impact |-> IF a.impact \in Impacts THEN a.impact ELSE "Low",
     forecast |-> a.forecast,
     previous |-> a.previous,
     actual |-> a.actual,
     source |-> a.source]

\* EconomicEvent(name, event_time_utc, impact, forecast, previous, actual,
\* source): every field but the time is stored as given
EconomicEvent(a) ==
    [name |-> a.name,
     event_time_utc |-> NormalizeTime(a.event_time_utc),
     impact |-> a.impact,
     forecast |-> a.forecast,
     previous |-> a.previous,
     actual |-> a.actual,
     source |-> a.source]

\* impact: str is not checked by Python: the three tiers, None, and texts
\* that are no tier
ImpactArgs == Impacts \cup {None, "high", ""}

InitEvent ==
    /\ pc = "construct"
    /\ IdleAgg
    /\ main_all_events = <<>>
    /\ filtered_events = <<>>
    /\ IdleIo
    /\ ev_args \in [name : {"CPI Release"},
                    event_time_utc : [wall : WallClocks, tzinfo : TzInfos],
                    impact : ImpactArgs, forecast : {None}, previous : {None},
                    actual : {None}, source : {"Unknown"}]
    /\ event = None
    /\ IdleFf
    /\ IdleHc

Construct ==
    /\ pc = "construct"
    /\ event' = EconomicEvent(ev_args)
    /\ pc' = "constructed"
    /\ UNCHANGED <<aggVars, mainVars, ioVars, ev_args, ffVars,
                   hcVars>>

SpecEvent == InitEvent /\ [][Construct]_vars

(***************************************************************************)
(* ForexFactoryFetcher.fetch.  A row is the list of the texts of its td     *)
(* cells, stripped.                                                        *)
(***************************************************************************)
\* the number of rows of the page
MaxRows == 1

HIGH_IMPACT_KEYWORDS ==
    <<"FOMC", "Federal Reserve", "Fed", "Interest Rate Decision", "CPI",
      "Consumer Price Index", "Inflation", "NFP", "Non-Farm Payroll",
      "Employment", "Unemployment Rate", "Jobs Report", "GDP",
      "Gross Domestic Product", "PCE", "Personal Consumption Expenditures",
      "Core PCE", "Retail Sales", "ISM Manufacturing", "ISM Services",
      "Jobless Claims", "Initial Jobless Claims", "PPI",
      "Producer Price Index", "Durable Goods Orders", "Housing Starts",
      "Building Permits", "Consumer Confidence", "Existing Home Sales",
      "New Home Sales", "Factory Orders", "Industrial Production",
      "Capacity Utilization">>

MEDIUM_IMPACT_KEYWORDS ==
    <<"Personal Income", "Personal Spending", "Advance Retail Sales",
      "Core Retail Sales", "Wholesale Inventories", "Business Inventories",
      "Construction Spending", "Chicago PMI", "Philly Fed Manufacturing",
      "Empire State Manufacturing", "MBA Mortgage Applications",
      "Conference Board Leading Index", "Pending Home Sales",
      "Core PCE Price Index", "Continuing Jobless Claims",
      "Average Hourly Earnings", "Labor Force Participation",
      "U-6 Unemployment", "Export Prices", "Import Prices",
      "Trade Balance", "Fed Beige Book", "FOMC Minutes",
      "Financial Conditions", "Bank Lending Standards">>

UpperCase == "ABCDEFGHIJKLMNOPQRSTUVWXYZ"

LowerCase == "abcdefghijklmnopqrstuvwxyz"

LowerChar(c) ==
    IF \E i \in 1..Len(UpperCase) : SubSeq(UpperCase, i, i) = c
    THEN LET i == CHOOSE i \in 1..Len(UpperCase) : SubSeq(UpperCase, i, i) = c
         IN SubSeq(LowerCase, i, i)
    ELSE c

\* str.lower()
RECURSIVE Lower(_)
Lower(s) ==
    IF Len(s) = 0 THEN ""
    ELSE LowerChar(SubSeq(s, 1, 1)) \o Lower(SubSeq(s, 2, Len(s)))

\* sub in s
Contains(sub, s) ==
    \E i \in 1..(Len(s) - Len(sub) + 1) : SubSeq(s, i, i + Len(sub) - 1) = sub

\* keyword.lower() of every keyword of a list
LowerAll(keywords) == [k \in 1..Len(keywords) |-> Lower(keywords[k])]

HighLowered == LowerAll(HIGH_IMPACT_KEYWORDS)

MediumLowered == LowerAll(MEDIUM_IMPACT_KEYWORDS)

\* some keyword of the lowered list is in the lowered name
MatchesAny(lowered, event_name) ==
    LET event_lower == Lower(event_name)
    IN  \E k \in 1..Len(lowered) : Contains(lowered[k], event_lower)

\* ForexFactoryFetcher._is_high_medium_impact
is_high_medium_impact(event_name) ==
    MatchesAny(HighLowered \o MediumLowered, event_name)

\* the event names of the pages tried
FFNames == {"FOMC Minutes", "fomc minutes", "Core PCE Price Index",
            "Continuing Jobless Claims", "Chicago PMI", "CPI y/y",
            "Random Local Council Meeting"}

\* _is_high_medium_impact of every name of the pages, computed once
NameMatches == [nm \in FFNames |-> is_high_medium_impact(nm)]

\* datetime.now(UTC) during the call: noon of the day of the page
NowUtc == 12 * SecPerHour

\* date_parser.parse(time_str, ignoretz=True): the texts tried and their
\* readings; the empty text does not parse
ParsedWall(time_str) ==
    CASE time_str = "3:30 AM" -> 3 * SecPerHour + 30 * SecPerMin
      [] time_str = "3:30 PM" -> 15 * SecPerHour + 30 * SecPerMin
      [] OTHER -> -1

\* ForexFactoryFetcher._parse_time: None when parse raises
parse_time(time_str) ==
    IF ParsedWall(time_str) < 0 THEN [wall |-> 0, tzinfo |-> None]
    ELSE replace_tzinfo([wall |-> ParsedWall(time_str), tzinfo |-> None], "LMT")

\* v if v and v.lower() != 'n/a' else None
TextOrNone(v) == IF v # "" /\ v # None /\ Lower(v) # "n/a" THEN v ELSE None

FFRows ==
    {<<t, imp, nm, "", fc, "">> :
        t \in {"", "3:30 AM", "3:30 PM"}, imp \in {"", "Low", "Medium", "High"},
        nm \in FFNames, fc \in {"", "N/A", "150K"}}
    \cup {<<"3:30 PM", "High", "CPI y/y", "">>}

InitForex ==
    /\ pc = "ff_request"
    /\ IdleAgg
    /\ main_all_events = <<>>
    /\ filtered_events = <<>>
    /\ IdleIo
    /\ IdleEv
    /\ rows \in SeqsUpTo(FFRows, MaxRows)
    /\ row_idx = 1
    /\ ff_events = <<>>
    /\ IdleHc

\* session.get and raise_for_status succeed, the rows are found
FFRequestOk ==
    /\ pc = "ff_request"
    /\ pc' = "ff_rows"
    /\ UNCHANGED <<aggVars, mainVars, ioVars, evVars, ffVars,
                   hcVars>>

\* the request raises: the outer except logs it, events is returned empty
FFRequestFails ==
    /\ pc = "ff_request"
    /\ pc' = "ff_returned"
    /\ UNCHANGED <<aggVars, mainVars, ioVars, evVars, ffVars,
                   hcVars>>

\* the cells of the row the loop is at
Cells == rows[row_idx]

AtRow == pc = "ff_rows" /\ row_idx <= Len(rows)

SkipRow ==
    /\ row_idx' = row_idx + 1
    /\ UNCHANGED <<pc, aggVars, mainVars, ioVars, evVars, rows, ff_events,
                   hcVars>>

\* if len(cells) < 5: continue
FFShortRow ==
    /\ AtRow
    /\ Len(Cells) < 5
    /\ SkipRow

\* if not self._is_high_medium_impact(event_name): continue
FFNoKeyword ==
    /\ AtRow
    /\ Len(Cells) >= 5
    /\ ~NameMatches[Cells[3]]
    /\ SkipRow

\* if event_time and event_time > datetime.now(UTC)
IsUpcoming(event_time) ==
    IF event_time.tzinfo = None THEN FALSE
    ELSE UtcSeconds(event_time) > NowUtc

\* the time does not parse or is not after now: nothing is appended
FFNotUpcoming ==
    /\ AtRow
    /\ Len(Cells) >= 5
    /\ NameMatches[Cells[3]]
    /\ ~IsUpcoming(parse_time(Cells[1]))
    /\ SkipRow

\* impact = 'High' if 'High' in impact_str else 'Medium'
ImpactOfCell(impact_str) ==
    IF Contains("High", impact_str) THEN "High" ELSE "Medium"

\* the row passes: an EconomicEvent is built and appended
FFAppend ==
    /\ AtRow
    /\ Len(Cells) >= 5
    /\ NameMatches[Cells[3]]
    /\ IsUpcoming(parse_time(Cells[1]))
    /\ ff_events' = Append(ff_events, EconomicEvent(
           [name |-> Cells[3],
            event_time_utc |-> parse_time(Cells[1]),
            impact |-> ImpactOfCell(Cells[2]),
            forecast |-> TextOrNone(Cells[5]),
            previous |-> IF Len(Cells) > 5 THEN TextOrNone(Cells[6])
                         ELSE None,
            actual |-> None,
            source |-> SourceOf(1)]))
    /\ row_idx' = row_idx + 1
    /\ UNCHANGED <<pc, aggVars, mainVars, ioVars, evVars, rows, hcVars>>

\* the loop has ended: return events
FFReturn ==
    /\ pc = "ff_rows"
    /\ row_idx > Len(rows)
    /\ pc' = "ff_returned"
    /\ UNCHANGED <<aggVars, mainVars, ioVars, evVars, ffVars,
                   hcVars>>

NextForex ==
    \/ FFRequestOk
    \/ FFRequestFails
    \/ FFShortRow
    \/ FFNoKeyword
    \/ FFNotUpcoming
    \/ FFAppend
    \/ FFReturn

SpecForex == InitForex /\ [][NextForex]_vars

(***************************************************************************)
(* HardcodedFetcher.fetch.  The readings of this section are seconds since *)
(* 2026-01-01 00:00; the year of every date built is 2026.                 *)
(***************************************************************************)
\* the last month of the year 2026 in which fetch is called; month 13 is
\* January 2027
MaxNowMonth == 12

SecPerDay == 24 * SecPerHour

\* the days of 2026 before the first of month m (calendar.monthrange), on
\* into 2027
DaysBefore == <<0, 31, 59, 90, 120, 151, 181, 212, 243, 273, 304, 334, 365,
                396, 424>>

\* calendar.monthrange(year, month)[1]
last_day(month) == DaysBefore[month + 1] - DaysBefore[month]

\* datetime(year, month, day, hour, minute): a naive value
datetime(month, day, hour, minute) ==
    [wall |-> (DaysBefore[month] + day - 1) * SecPerDay + hour * SecPerHour
              + minute * SecPerMin,
     tzinfo |-> None]

\* US_EASTERN.localize(dt): daylight time from March 8 03:00 to November 1
\* 01:00 of 2026, standard time outside
localize(dt) ==
    replace_tzinfo(dt,
        IF /\ datetime(3, 8, 3, 0).wall <= dt.wall
           /\ dt.wall < datetime(11, 1, 1, 0).wall
        THEN "EDT" ELSE "EST")

\* dt + timedelta(minutes=m)
plus_minutes(dt, m) == [dt EXCEPT !.wall = @ + m * SecPerMin]

\* (date_str, hour_et, minute), the date as (month, day)
fomc_dates_2026 ==
    <<<<1, 27, 19, 0>>, <<3, 17, 19, 0>>, <<5, 4, 19, 0>>, <<6, 16, 19, 0>>,
      <<7, 28, 19, 0>>, <<9, 16, 19, 0>>, <<11, 3, 19, 0>>,
      <<12, 15, 19, 0>>>>

\* (event_name, day, hour_et, minute, impact); the note is left out
monthly_events ==
    <<<<"Employment Report (NFP)", 7, 12, 30, "High">>,
      <<"Jobless Claims", 4, 12, 30, "High">>,
      <<"CPI Release", 12, 12, 30, "High">>,
      <<"PPI Release", 13, 12, 30, "High">>,
      <<"Retail Sales", 13, 12, 30, "High">>,
      <<"ISM Manufacturing PMI", 1, 12, 0, "High">>,
      <<"ISM Services PMI", 3, 12, 0, "Medium">>,
      <<"Durable Goods Orders", 25, 12, 30, "Medium">>,
      <<"Personal Income", 27, 12, 30, "Medium">>,
      <<"Personal Spending", 27, 13, 30, "Medium">>,
      <<"PCE Price Index", 27, 12, 30, "High">>,
      <<"Housing Starts", 18, 12, 30, "High">>,
      <<"Building Permits", 18, 12, 30, "Medium">>,
      <<"Existing Home Sales", 25, 14, 0, "High">>,
      <<"New Home Sales", 28, 14, 0, "Medium">>>>

\* the records built for one FOMC date: the decision and the projections at
\* event_time, the press conference 30 minutes later
FomcEvents(d) ==
    LET event_time == localize(datetime(d[1], d[2], d[3], d[4]))
        Fomc(name, t) ==
            EconomicEvent([name |-> name, event_time_utc |-> t,
                           impact |-> "High", forecast |-> None,
                           previous |-> None, actual |-> None,
                           source |-> "Federal Reserve (Hardcoded)"])
    IN  <<Fomc("FOMC Interest Rate Decision", event_time),
          Fomc("FOMC Economic Projections", event_time),
          Fomc("FOMC Press Conference", plus_minutes(event_time, 30))>>

\* the loop over monthly_events for one month, from entry i on: an entry
\* whose time is before now is skipped
RECURSIVE MonthLoop(_, _, _, _)
MonthLoop(month, now, i, acc) ==
    IF i > Len(monthly_events) THEN acc
    ELSE LET m == monthly_events[i]
             day == IF m[2] > 28 THEN (IF m[2] < last_day(month) THEN m[2]
                                       ELSE last_day(month))
                    ELSE m[2]
             event_time == localize(datetime(month, day, m[3], m[4]))
         IN  IF UtcSeconds(event_time) < now
             THEN MonthLoop(month, now, i + 1, acc)
             ELSE MonthLoop(month, now, i + 1,
                      Append(acc, EconomicEvent(
                          [name |-> m[1], event_time_utc |-> event_time,
                           impact |-> m[5], forecast |-> None,
                           previous |-> None, actual |-> None,
                           source |-> SourceOf(3)])))

\* datetime.now(UTC) during the call: noon of the 15th of a month
NowChoices == {datetime(m, 15, 12, 0).wall : m \in 1..MaxNowMonth}

\* the horizons asked for: a day, a month, the default
DaysAheadChoices == {1, 30, DefaultDaysAhead}

InitHardcoded ==
    /\ pc = "hc_fomc"
    /\ IdleAgg
    /\ main_all_events = <<>>
    /\ filtered_events = <<>>
    /\ IdleIo
    /\ IdleEv
    /\ IdleFf
    /\ now_utc \in NowChoices
    /\ days_ahead \in DaysAheadChoices
    /\ hc_idx = 1
    /\ hc_events = <<>>

\* one pass of "for date_str, hour_et, minute in fomc_dates_2026"
HcFomcDate ==
    /\ pc = "hc_fomc"
    /\ hc_idx <= Len(fomc_dates_2026)
    /\ hc_events' = hc_events \o FomcEvents(fomc_dates_2026[hc_idx])
    /\ hc_idx' = hc_idx + 1
    /\ UNCHANGED <<pc, aggVars, mainVars, ioVars, evVars, ffVars, now_utc,
                   days_ahead>>

\* the FOMC loop has ended: for month in range(1, 13)
HcFomcDone ==
    /\ pc = "hc_fomc"
    /\ hc_idx > Len(fomc_dates_2026)
    /\ pc' = "hc_months"
    /\ hc_idx' = 1
    /\ UNCHANGED <<aggVars, mainVars, ioVars, evVars, ffVars, now_utc,
                   days_ahead, hc_events>>

\* datetime.now(UTC) > datetime(year, month, 28, 23, 59, tzinfo=UTC)
MonthIsPast(month, now) == now > datetime(month, 28, 23, 59).wall

\* a month in the past: continue
HcSkipMonth ==
    /\ pc = "hc_months"
    /\ hc_idx <= 12
    /\ MonthIsPast(hc_idx, now_utc)
    /\ hc_idx' = hc_idx + 1
    /\ UNCHANGED <<pc, aggVars, mainVars, ioVars, evVars, ffVars, now_utc,
                   days_ahead, hc_events>>

\* the loop over monthly_events for a month that is not past
HcMonth ==
    /\ pc = "hc_months"
    /\ hc_idx <= 12
    /\ ~MonthIsPast(hc_idx, now_utc)
    /\ hc_events' = MonthLoop(hc_idx, now_utc, 1, hc_events)
    /\ hc_idx' = hc_idx + 1
    /\ UNCHANGED <<pc, aggVars, mainVars, ioVars, evVars, ffVars, now_utc,
                   days_ahead>>

\* return events
HcReturn ==
    /\ pc = "hc_months"
    /\ hc_idx > 12
    /\ pc' = "hc_returned"
    /\ UNCHANGED <<aggVars, mainVars, ioVars, evVars, ffVars, hcVars>>

NextHardcoded ==
    \/ HcFomcDate
    \/ HcFomcDone
    \/ HcSkipMonth
    \/ HcMonth
    \/ HcReturn

SpecHardcoded == InitHardcoded /\ [][NextHardcoded]_vars

(***************************************************************************)
(* Properties of the aggregation.                                          *)
(***************************************************************************)
Range(s) == {s[k] : k \in 1..Len(s)}

\* the deduplication loop has run
Deduplicated == pc \in {"sort", "filter", "filtered"}

\* same name, same minute: stated with the minute number, not with the key
SameEvent(a, b) ==
    /\ a.name = b.name
    /\ a.event_time_utc \div SecPerMin = b.event_time_utc \div SecPerMin

\* the positions of the stream that hold the first record of their group
FirstSeen == {i \in 1..Len(all_events) :
                \A j \in 1..(i - 1) : ~SameEvent(all_events[j], all_events[i])}

\* C1: after the deduplication the kept list holds exactly one record for
\* every group of input records of equal name and equal minute (seconds
\* dropped, not rounded): every input record has exactly one kept record of
\* its name and minute, every kept record is an input record, and no two
\* kept records share the name and the minute.
C1_DedupByNameAndMinute ==
    Deduplicated =>
        /\ \A i \in 1..Len(all_events) :
              Cardinality({k \in 1..Len(unique_events) :
                  SameEvent(all_events[i], unique_events[k])}) = 1
        /\ Range(unique_events) \subseteq Range(all_events)
        /\ \A k, l \in 1..Len(unique_events) :
              SameEvent(unique_events[k], unique_events[l]) => k = l

\* two records of one name at 12:30:00 and 12:30:45 collapsed into one
C1_Witness ==
    /\ pc = "sort"
    /\ Len(all_events) = 2
    /\ all_events[1].name = all_events[2].name
    /\ all_events[1].event_time_utc = 45000
    /\ all_events[2].event_time_utc = 45045
    /\ Len(unique_events) = 1

\* C2: the stream is the adapters' lists in the order ForexFactory,
\* FedCalendar, Hardcoded, and the records kept are exactly the records that
\* stand first in the stream among those of their name and minute, each with
\* all of its own fields.
C2_FirstSeenWins ==
    Deduplicated =>
        /\ all_events = Flatten(results)
        /\ \A r \in 1..Len(results) : results[r].fetcher = FetcherName(r)
        /\ Range(unique_events) = {all_events[i] : i \in FirstSeen}
        /\ Len(unique_events) = Cardinality(FirstSeen)

\* a record without forecast, then its duplicate with forecast 150K
C2_Witness ==
    /\ pc = "filtered"
    /\ Len(all_events) = 2
    /\ SameEvent(all_events[1], all_events[2])
    /\ all_events[1].impact = "High"
    /\ all_events[2].impact = "High"
    /\ all_events[1].forecast = None
    /\ all_events[2].forecast = "150K"
    /\ filtered_events = <<all_events[1]>>

\* the positions of main's all_events that hold a High or Medium record
KeptPositions == {i \in 1..Len(main_all_events) :
                    main_all_events[i].impact \in {"High", "Medium"}}

\* C3: the filtered list holds no record whose impact is not High or Medium,
\* and holds every High or Medium record of the list given, in the same
\* relative order and as many times.
C3_FilterKeepsHighMedium ==
    pc = "filtered" =>
        /\ \A k \in 1..Len(filtered_events) :
              filtered_events[k].impact \in {"High", "Medium"}
        /\ Len(filtered_events) = Cardinality(KeptPositions)
        /\ \A i \in KeptPositions :
              filtered_events[Cardinality({j \in KeptPositions : j <= i})]
                  = main_all_events[i]

\* a Low record is dropped, the Medium record behind it is kept
C3_Witness ==
    /\ pc = "filtered"
    /\ Len(main_all_events) = 2
    /\ main_all_events[1].impact = "Low"
    /\ main_all_events[2].impact = "Medium"
    /\ filtered_events = <<main_all_events[2]>>

\* the first position of the stream that holds record e
StreamPos(e) == CHOOSE i \in 1..Len(all_events) :
                    /\ all_events[i] = e
                    /\ \A j \in 1..(i - 1) : all_events[j] # e

\* C4: the list handed to the serializers is sorted non-decreasing by the
\* full event time, and records of one instant stand in the order they had
\* after the deduplication (the order of their first occurrence).
C4_SortedStable ==
    pc = "filtered" =>
        \A k, l \in 1..Len(filtered_events) :
            k < l =>
              /\ filtered_events[k].event_time_utc
                    <= filtered_events[l].event_time_utc
              /\ filtered_events[k].event_time_utc
                    = filtered_events[l].event_time_utc
                    => StreamPos(filtered_events[k])
                         < StreamPos(filtered_events[l])

\* two records that arrived in descending time order, both kept
C4_Witness ==
    /\ pc = "filtered"
    /\ Len(all_events) = 2
    /\ all_events[1].event_time_utc > all_events[2].event_time_utc
    /\ filtered_events = <<all_events[2], all_events[1]>>

\* concatenate, deduplicate, sort, filter
Aggregate(X) == filter_high_medium(SortByTime(Dedup(X).unique))

\* C5: aggregating the output concatenated with itself yields the output.
C5_Idempotent ==
    pc = "filtered" =>
        Aggregate(filtered_events \o filtered_events) = filtered_events

\* an output of two records of one instant
C5_Witness ==
    /\ pc = "filtered"
    /\ Len(filtered_events) = 2
    /\ filtered_events[1].event_time_utc = filtered_events[2].event_time_utc

\* C8: the adapters are called one at a time in the order of self.fetchers;
\* an adapter whose fetch raises adds no record, the adapters after it are
\* still called, what they return is in the stream that is deduplicated, and
\* fetch_all is never left by an exception.
C8_FailureIsolation ==
    /\ pc \in {"fetch", "sort", "filter", "filtered"}
    /\ Len(results) = idx - 1
    /\ \A r \in 1..Len(results) : results[r].fetcher = FetcherName(r)
    /\ all_events = Flatten(results)
    /\ Deduplicated =>
          /\ Len(results) = NumFetchers
          /\ \A r \in 1..NumFetchers :
                ~results[r].raised =>
                    \A k \in 1..Len(results[r].events) :
                        \E u \in 1..Len(unique_events) :
                            SameEvent(results[r].events[k], unique_events[u])

\* the second adapter raised, the first and the third returned records
C8_Witness ==
    /\ pc = "filtered"
    /\ results[2].raised
    /\ Len(results[1].events) = 1
    /\ Len(results[3].events) = 1
    /\ Len(unique_events) = 2

\* the elements of s at the positions P, in the order of the positions
AtPositions(s, P) ==
    [k \in 1..Cardinality(P) |->
        s[CHOOSE i \in P : Cardinality({j \in P : j < i}) = k - 1]]

\* the place of s[i] in s ordered by time, equal times by position
RankByTime(s, i) ==
    1 + Cardinality({j \in 1..Len(s) :
            \/ s[j].event_time_utc < s[i].event_time_utc
            \/ /\ s[j].event_time_utc = s[i].event_time_utc
               /\ j < i})

\* s in ascending order of time, records of one instant in their order in s
StablySorted(s) ==
    [k \in 1..Len(s) |-> s[CHOOSE i \in 1..Len(s) : RankByTime(s, i) = k]]

\* the positions of s that hold a High or Medium record
HighMedium(s) == {i \in 1..Len(s) : s[i].impact \in {"High", "Medium"}}

\* the stream deduplicated, then filtered by impact, then sorted stably
DedupFilterSort ==
    LET deduplicated == AtPositions(all_events, FirstSeen)
        filtered == AtPositions(deduplicated, HighMedium(deduplicated))
    IN  StablySorted(filtered)

\* C13: the list main gets by deduplicating, sorting and then filtering is
\* the list obtained by deduplicating, filtering by impact and then sorting
\* stably by event time: the same records in the same order.
C13_OrderOfStages ==
    pc = "filtered" => filtered_events = DedupFilterSort

\* a High record, then an earlier Low record: the sort moves the Low record
\* to the front and the filter drops it
C13_Witness ==
    /\ pc = "filtered"
    /\ Len(all_events) = 2
    /\ all_events[1].impact = "High"
    /\ all_events[2].impact = "Low"
    /\ all_events[2].event_time_utc < all_events[1].event_time_utc
    /\ main_all_events = <<all_events[2], all_events[1]>>
    /\ filtered_events = <<all_events[1]>>

\* the final list holds a record of the name and minute of all_events[i]
Represented(i) ==
    \E k \in 1..Len(filtered_events) :
        SameEvent(all_events[i], filtered_events[k])

\* the record that stands first in the stream among those of the name and
\* minute of all_events[i]
FirstOfGroup(i) ==
    all_events[CHOOSE j \in FirstSeen : SameEvent(all_events[j], all_events[i])]

\* C14 as stated: every High or Medium record of the stream is represented
\* in the final list by a record of its name and minute, whatever else the
\* stream holds.
C14_HighMediumRepresented ==
    pc = "filtered" =>
        \A i \in HighMedium(all_events) : Represented(i)

\* C14, amended: a record of the stream is represented in the final list by
\* a record of its name and minute exactly when the first record of that
\* name and minute in the stream is High or Medium; a High or Medium record
\* behind a Low record of its name and minute is dropped with it.
C14_RepresentedIffFirstKept ==
    pc = "filtered" =>
        \A i \in 1..Len(all_events) :
            Represented(i) <=> FirstOfGroup(i).impact \in {"High", "Medium"}

\* a Low record, then a High record of the same name and minute: the final
\* list is empty
C14_Witness ==
    /\ pc = "filtered"
    /\ Len(all_events) = 2
    /\ SameEvent(all_events[1], all_events[2])
    /\ all_events[1].impact = "Low"
    /\ all_events[2].impact = "High"
    /\ filtered_events = <<>>

(***************************************************************************)
(* Properties of main.                                                     *)
(***************************************************************************)
\* the run wrote the whole text to the file
Written(f) == f.opened /\ f.written # <<>>

\* the run neither opened nor wrote the file
Untouched(f) == ~f.opened /\ f.written = <<>>

\* C9: when no High/Medium record is left, main returns False, the exit
\* status is 1 and neither file is opened or written; the exit status is 0
\* only if a High/Medium record was left and both files hold the text
\* generated from the filtered list.
C9_EmptyMeansFailure ==
    pc = "done" =>
        /\ exit_status = (IF ret = TRUE THEN 0 ELSE 1)
        /\ filtered_events = <<>> =>
              /\ ret = FALSE
              /\ exit_status = 1
              /\ Untouched(pine_file)
              /\ Untouched(json_file)
        /\ exit_status = 0 =>
              /\ filtered_events # <<>>
              /\ Written(pine_file)
              /\ Written(json_file)
              /\ pine_file.written = <<generate_pine_arrays(filtered_events)>>
              /\ json_file.written = <<generate_json(filtered_events)>>

\* records were fetched, none of them High or Medium: failure, no file
C9_Witness ==
    /\ pc = "done"
    /\ main_all_events # <<>>
    /\ filtered_events = <<>>
    /\ exit_status = 1
    /\ Untouched(pine_file)
    /\ Untouched(json_file)

\* C10: a run ends with both files written or with neither written.
C10_NoPartialOutput ==
    pc = "done" => (Written(pine_file) <=> Written(json_file))


(***************************************************************************)
(* Properties of the constructor.                                          *)
(***************************************************************************)
\* C6 as the specification states it: a naive timestamp is read as US
\* Eastern time, so the stored reading is the one given plus five hours
\* (EST) or four (EDT); an aware one is stored as the same instant; the
\* stored value is aware UTC.
C6_NaiveIsEastern ==
    pc = "constructed" =>
        /\ event.event_time_utc.tzinfo = "UTC"
        /\ ev_args.event_time_utc.tzinfo = None =>
              event.event_time_utc.wall - ev_args.event_time_utc.wall
                  \in {-utcoffset("EST"), -utcoffset("EDT")}
        /\ ev_args.event_time_utc.tzinfo # None =>
              UtcSeconds(event.event_time_utc)
                  = UtcSeconds(ev_args.event_time_utc)

\* C6, amended: a naive timestamp is taken as a UTC reading and stored with
\* the same reading, no offset applied; an aware one is stored as the same
\* instant; the stored value is aware UTC.
C6_NaiveIsUtc ==
    pc = "constructed" =>
        /\ event.event_time_utc.tzinfo = "UTC"
        /\ ev_args.event_time_utc.tzinfo = None =>
              event.event_time_utc.wall = ev_args.event_time_utc.wall
        /\ ev_args.event_time_utc.tzinfo # None =>
              event.event_time_utc.wall
                  = ev_args.event_time_utc.wall
                      - utcoffset(ev_args.event_time_utc.tzinfo)

\* an event built from the naive reading 08:30
C6_Witness ==
    /\ pc = "constructed"
    /\ ev_args.event_time_utc = [wall |-> 8 * SecPerHour + 30 * SecPerMin,
                                 tzinfo |-> None]
    /\ event.event_time_utc = [wall |-> 8 * SecPerHour + 30 * SecPerMin,
                               tzinfo |-> "UTC"]

C12_WithinHorizon ==
    pc = "hc_returned" =>
        \A k \in 1..Len(hc_events) :
            /\ UtcSeconds(hc_events[k].event_time_utc) > now_utc
            /\ UtcSeconds(hc_events[k].event_time_utc)
                  <= now_utc + days_ahead * SecPerDay

(***************************************************************************)
(* Properties of the Forex Factory adapter.                                *)
(***************************************************************************)
\* the tier of a name by the keyword lists: High before Medium, else Low
Classify(event_name) ==
    IF MatchesAny(HighLowered, event_name) THEN "High"
    ELSE IF MatchesAny(MediumLowered, event_name) THEN "Medium"
    ELSE "Low"

\* Classify of every name of the pages, computed once
TierOfName == [nm \in FFNames |-> Classify(nm)]

\* C7: the impact of every record the adapter emits is the tier of its name
\* by the keyword lists, High winning over Medium; so a record whose name
\* holds a High keyword has impact High.
C7_TierFromNameAlone ==
    \A k \in 1..Len(ff_events) :
        ff_events[k].impact = TierOfName[ff_events[k].name]

====
